---- MODULE Spec2Model ----
(***************************************************************************)
(* Model of the two command-line tools of Apple-Calendar-to-Json:          *)
(*   src/Query-JSON.py   the day-agenda filter                             *)
(*   src/json_to_ics.py  the ICS exporter                                  *)
(* Text is modelled by TLA+ strings (Len, \o and SubSeq act on them        *)
(* character by character), instants by [s |-> seconds since the Unix      *)
(* epoch, us |-> microseconds], calendar dates by days since the epoch.    *)
(***************************************************************************)
EXTENDS Integers, Sequences, FiniteSets, TLC

VARIABLES
    prog,           \* sys.argv[0]: the tool that runs
    pc,             \* position of the running program
    argv,           \* sys.argv[1:]
    payload,        \* the JSON document read from the input file
    envTZ,          \* the TZ variable of the environment
    clock,          \* the current instant, seconds since the epoch
    idx,            \* 1-based position of the loop in the events
    stdout,         \* the lines printed to standard output
    stderr,         \* the lines printed to standard error
    exit_code,      \* exit status, -1 while running
    target_date,    \* agenda: the target date
    day_start_utc,  \* agenda: the window's start
    day_end_utc,    \* agenda: the window's end
    matches,        \* agenda: the list of matches
    hashSeed,       \* exporter: the hash seed of the process
    lines,          \* exporter: the list of output lines
    file,           \* exporter: the output file
    prevFile,       \* exporter: the output file as the run before left it
    rerun,          \* exporter: whether this is the second run on the input
    line,           \* fold_ics_line: the argument
    folded,         \* fold_ics_line: the returned string
    text,           \* escape_ics_text: the argument
    escaped         \* escape_ics_text: the returned string

vars == <<prog, pc, argv, payload, envTZ, clock, idx, stdout, stderr, exit_code,
          target_date, day_start_utc, day_end_utc, matches,
          hashSeed, lines, file, prevFile, rerun,
          line, folded, text, escaped>>

(***************************************************************************)
(* Strings                                                                 *)
(***************************************************************************)
CRLF == "\r\n"

\* s[from:] of Python, positions counted from 0
StrFrom(s, from) == SubSeq(s, from + 1, Len(s))

\* s[:to] of Python
StrTo(s, to) == SubSeq(s, 1, IF to < Len(s) THEN to ELSE Len(s))

\* the character at 1-based position k; "" past the end of s
CharAt(s, k) == IF k >= 1 /\ k <= Len(s) THEN SubSeq(s, k, k) ELSE ""

\* the least number of a non-empty set
SetMin(S) == CHOOSE j \in S : \A h \in S : j <= h

\* Body of the value v: v is worked out once, whatever Body does with it
With(v, Body(_)) == Body(v)

\* s.endswith(suffix)
EndsWith(s, suffix) ==
    /\ Len(s) >= Len(suffix)
    /\ SubSeq(s, Len(s) - Len(suffix) + 1, Len(s)) = suffix

\* s.startswith(prefix)
StartsWith(s, prefix) ==
    /\ Len(s) >= Len(prefix)
    /\ SubSeq(s, 1, Len(prefix)) = prefix

\* sep.join(parts)
RECURSIVE Join(_, _)
Join(parts, sep) ==
    IF Len(parts) = 0 THEN ""
    ELSE IF Len(parts) = 1 THEN parts[1]
    ELSE parts[1] \o sep \o Join(Tail(parts), sep)

\* s.replace(old, new) for a one-character old: a left-to-right scan
RECURSIVE Replace(_, _, _)
Replace(s, old, new) ==
    IF Len(s) = 0 THEN ""
    ELSE (IF CharAt(s, 1) = old THEN new ELSE CharAt(s, 1))
             \o Replace(StrFrom(s, 1), old, new)

\* 1-based position of the first occurrence of sep in s at or after k, 0 if none
IndexFrom(s, sep, k) ==
    LET hits == {j \in k..(Len(s) - Len(sep) + 1) : SubSeq(s, j, j + Len(sep) - 1) = sep}
    IN  IF hits = {} THEN 0 ELSE SetMin(hits)

(***************************************************************************)
(* datetime, date and zoneinfo, as far as the two tools use them.          *)
(* A date is a number of days since 1970-01-01.  A datetime is a record    *)
(* [wall, us, off, offus, aware, tzinfo]: wall is the wall-clock reading   *)
(* in seconds since 1970-01-01T00:00:00 of its own clock, us the           *)
(* microseconds, off and offus the seconds and microseconds of the UTC     *)
(* offset (of one sign); aware is FALSE when the datetime has no tzinfo    *)
(* (off and offus are then 0 and unused).  tzinfo tells which object the   *)
(* datetime carries: "" for none, TzUtc for timezone.utc, TzFixed for a    *)
(* timezone(offset) made for this datetime alone, and the key of the zone  *)
(* for ZoneInfo(key), which is one object per key.                         *)
(***************************************************************************)
TzUtc == "timezone.utc"
TzFixed == "timezone"

\* an aware datetime whose offset is a whole number of seconds
Aware(wall, us, off, tzinfo) ==
    [wall |-> wall, us |-> us, off |-> off, offus |-> 0, aware |-> TRUE, tzinfo |-> tzinfo]

\* a naive datetime
NaiveDt(wall, us) ==
    [wall |-> wall, us |-> us, off |-> 0, offus |-> 0, aware |-> FALSE, tzinfo |-> ""]

IsLeap(y) == (y % 4 = 0 /\ y % 100 # 0) \/ y % 400 = 0

DaysInMonth(y, m) ==
    CASE m \in {1, 3, 5, 7, 8, 10, 12} -> 31
      [] m \in {4, 6, 9, 11} -> 30
      [] OTHER -> IF IsLeap(y) THEN 29 ELSE 28

\* date(y, m, d) as days since 1970-01-01
DaysFromCivil(y, m, d) ==
    LET yy  == IF m <= 2 THEN y - 1 ELSE y
        era == yy \div 400
        yoe == yy - era * 400
        mp  == (m + 9) % 12
        doy == (153 * mp + 2) \div 5 + d - 1
        doe == yoe * 365 + yoe \div 4 - yoe \div 100 + doy
    IN  era * 146097 + doe - 719468

\* the year, month and day of a date
CivilFromDays(z) ==
    LET zz  == z + 719468
        era == zz \div 146097
        doe == zz - era * 146097
    IN  With((doe - doe \div 1460 + doe \div 36524 - doe \div 146096) \div 365, LAMBDA yoe :
        With(doe - (365 * yoe + yoe \div 4 - yoe \div 100), LAMBDA doy :
        With((5 * doy + 2) \div 153, LAMBDA mp :
            LET d == doy - (153 * mp + 2) \div 5 + 1
                m == IF mp < 10 THEN mp + 3 ELSE mp - 9
                y == yoe + era * 400
            IN  [year |-> IF m <= 2 THEN y + 1 ELSE y, month |-> m, day |-> d])))

\* date.weekday(): 0 is Monday
Weekday(days) == (days + 3) % 7

\* the first Sunday on or after date(y, m, d)
SundayOnOrAfter(y, m, d) ==
    With(DaysFromCivil(y, m, d), LAMBDA d0 : d0 + (6 - Weekday(d0)))

\* the last Sunday of month m of year y
LastSunday(y, m) ==
    With(DaysFromCivil(y, m, DaysInMonth(y, m)), LAMBDA d0 : d0 - ((Weekday(d0) + 1) % 7))

\* the zones the environment names
Zones == {"UTC", "America/New_York"}

\* America/New_York, tzdata rules US and NYC.  A rule holds from its year on
\* until the next one; it names the date on which daylight time starts and
\* the date on which it ends: <<"last", 0, m, 0>> is the last Sunday of month
\* m, <<"ge", 0, m, n>> the first Sunday on or after day n of month m,
\* <<"on", k, m, n>> day n of month m of the year k years later.  War time
\* ran from 1942-02-09 to 1945-09-30 without a break: its dates lie before
\* and after a year that has no change of its own.
NYRules ==
    << [from |-> 2007, days |-> << <<"ge", 0, 3, 8>>,     <<"ge", 0, 11, 1>> >>],
       [from |-> 1987, days |-> << <<"ge", 0, 4, 1>>,     <<"last", 0, 10, 0>> >>],
       [from |-> 1976, days |-> << <<"last", 0, 4, 0>>,   <<"last", 0, 10, 0>> >>],
       [from |-> 1975, days |-> << <<"on", 0, 2, 23>>,    <<"last", 0, 10, 0>> >>],
       [from |-> 1974, days |-> << <<"on", 0, 1, 6>>,     <<"last", 0, 10, 0>> >>],
       [from |-> 1955, days |-> << <<"last", 0, 4, 0>>,   <<"last", 0, 10, 0>> >>],
       [from |-> 1946, days |-> << <<"last", 0, 4, 0>>,   <<"last", 0, 9, 0>> >>],
       [from |-> 1945, days |-> << <<"on", -1, 12, 31>>,  <<"on", 0, 9, 30>> >>],
       [from |-> 1943, days |-> << <<"on", -1, 12, 31>>,  <<"on", 1, 1, 1>> >>],
       [from |-> 1942, days |-> << <<"on", 0, 2, 9>>,     <<"on", 1, 1, 1>> >>],
       [from |-> 1921, days |-> << <<"last", 0, 4, 0>>,   <<"last", 0, 9, 0>> >>],
       [from |-> 1918, days |-> << <<"last", 0, 3, 0>>,   <<"last", 0, 10, 0>> >>] >>

\* the date a rule names in year y
RuleDay(y, r) ==
    CASE r[1] = "last" -> LastSunday(y, r[3])
      [] r[1] = "ge"   -> SundayOnOrAfter(y, r[3], r[4])
      [] r[1] = "on"   -> DaysFromCivil(y + r[2], r[3], r[4])

\* <<d1, d2>>: daylight time runs from 02:00 standard time of date d1 to
\* 02:00 daylight time of date d2 of year y; the two are equal in a year
\* without daylight time
NYDaylight(y) ==
    With({k \in 1..Len(NYRules) : NYRules[k].from <= y}, LAMBDA held :
        IF held = {} THEN <<0, 0>>
        ELSE [i \in 1..2 |-> RuleDay(y, NYRules[SetMin(held)].days[i])])

\* the second t of date d is at or after second a of date d1 and before
\* second b of date d2
Between(d, t, d1, a, d2, b) ==
    /\ d > d1 \/ (d = d1 /\ t >= a)
    /\ d < d2 \/ (d = d2 /\ t < b)

\* ZoneInfo(zone).utcoffset at the UTC instant u (seconds), and the offset
\* localtime() of a process in that zone reports for u; New York from 1901 on
UtcOffset(zone, u) ==
    CASE zone = "UTC" -> 0
      [] zone = "America/New_York" ->
            With(NYDaylight(CivilFromDays(u \div 86400).year), LAMBDA dl :
                IF Between(u \div 86400, u % 86400, dl[1], 7 * 3600, dl[2], 6 * 3600)
                THEN -14400 ELSE -18000)

\* ZoneInfo(zone).utcoffset of the wall-clock reading w with fold = 0: a reading
\* in the spring gap takes the offset before the change, a repeated reading in
\* autumn the first of its two offsets
WallOffset(zone, w) ==
    CASE zone = "UTC" -> 0
      [] zone = "America/New_York" ->
            With(NYDaylight(CivilFromDays(w \div 86400).year), LAMBDA dl :
                IF Between(w \div 86400, w % 86400, dl[1], 3 * 3600, dl[2], 2 * 3600)
                THEN -14400 ELSE -18000)

\* local_to_seconds of the interpreter with fold = 0: the UTC instant u with
\* localtime(u) = t for the reading t of the process's clock; the later of
\* the two candidates when t lies in a gap
local_to_seconds(zone, t) ==
    With(UtcOffset(zone, t), LAMBDA a :
    With(t - a + UtcOffset(zone, t - a), LAMBDA t1 :
    With(IF t1 = t THEN UtcOffset(zone, t - a - 86400) ELSE t1 - (t - a), LAMBDA b :
    With(t - b + UtcOffset(zone, t - b), LAMBDA t2 :
        LET u1 == t - a
            u2 == t - b
        IN  IF t1 = t /\ a = b THEN u1
            ELSE IF t2 = t THEN u2
            ELSE IF t1 = t THEN u1
            ELSE IF u1 > u2 THEN u1 ELSE u2))))

\* dt.astimezone(timezone.utc) of an aware dt
AwareAsUtc(dt) ==
    LET t     == dt.us - dt.offus
        carry == IF t < 0 THEN -1 ELSE IF t >= 1000000 THEN 1 ELSE 0
    IN  Aware(dt.wall - dt.off + carry, t - carry * 1000000, 0, TzUtc)

\* dt.astimezone(timezone.utc).  A naive dt is read in the zone of the
\* process: its offset is the one localtime() reports at local_to_seconds
AsUtc(dt, sysZone) ==
    IF dt.aware THEN AwareAsUtc(dt)
    ELSE Aware(dt.wall - UtcOffset(sysZone, local_to_seconds(sysZone, dt.wall)), dt.us, 0,
               TzUtc)

\* dt.astimezone(ZoneInfo(zone)) of an aware dt
AsZone(dt, zone) ==
    With(AwareAsUtc(dt), LAMBDA u :
    With(UtcOffset(zone, u.wall), LAMBDA o :
        Aware(u.wall + o, u.us, o, zone)))

\* dt.date()
DateOf(dt) == dt.wall \div 86400

\* a < b and a > b of two aware datetimes.  Two datetimes that carry the same
\* tzinfo object are compared by their wall-clock readings, offset and fold
\* left aside; any other two by their UTC instants
DtLess(a, b) ==
    IF a.tzinfo = b.tzinfo /\ a.tzinfo # TzFixed
    THEN a.wall < b.wall \/ (a.wall = b.wall /\ a.us < b.us)
    ELSE With(AwareAsUtc(a), LAMBDA ua :
         With(AwareAsUtc(b), LAMBDA ub :
             ua.wall < ub.wall \/ (ua.wall = ub.wall /\ ua.us < ub.us)))

DtGreater(a, b) == DtLess(b, a)

(***************************************************************************)
(* Numbers in text                                                         *)
(***************************************************************************)
Digits == {"0", "1", "2", "3", "4", "5", "6", "7", "8", "9"}

DigitVal(c) ==
    CASE c = "0" -> 0 [] c = "1" -> 1 [] c = "2" -> 2 [] c = "3" -> 3 [] c = "4" -> 4
      [] c = "5" -> 5 [] c = "6" -> 6 [] c = "7" -> 7 [] c = "8" -> 8 [] c = "9" -> 9

AllDigits(s) == \A k \in 1..Len(s) : CharAt(s, k) \in Digits

RECURSIVE NumVal(_)
NumVal(s) ==
    IF Len(s) = 0 THEN 0
    ELSE 10 * NumVal(SubSeq(s, 1, Len(s) - 1)) + DigitVal(CharAt(s, Len(s)))

\* n in decimal, zero-padded to w characters
RECURSIVE ZeroPad(_, _)
ZeroPad(n, w) ==
    LET t == ToString(n) IN IF Len(t) >= w THEN t ELSE "0" \o ZeroPad(n, w - 1)

\* an f-string's {s:<w}: s padded with spaces on the right to w characters
RECURSIVE LeftAlign(_, _)
LeftAlign(s, w) == IF Len(s) >= w THEN s ELSE LeftAlign(s \o " ", w)

(***************************************************************************)
(* datetime.fromisoformat and date.fromisoformat of the interpreter        *)
(* (CPython 3.11, Modules/_datetimemodule.c).  The date is YYYY-MM-DD,     *)
(* YYYYMMDD, YYYY-Www[-D] or YYYYWww[D]; one character of any kind stands  *)
(* between date and time; the time is HH[:MM[:SS]] or HH[MM[SS]] with a    *)
(* fraction after "." or ","; the offset is Z or a sign and a time.  Any   *)
(* other string is a ValueError.                                           *)
(***************************************************************************)
ParseError == [ok |-> FALSE, dt |-> NaiveDt(0, 0)]

DateError == [ok |-> FALSE, days |-> 0]

\* parse_digits: n decimal digits stand in s from position p on
DigitsAt(s, p, n) == \A k \in p..(p + n - 1) : CharAt(s, k) \in Digits

\* iso_week1_monday: the Monday that starts ISO week 1 of year y
iso_week1_monday(y) ==
    LET first == DaysFromCivil(y, 1, 1)
        wd    == Weekday(first)
    IN  IF wd > 3 THEN first - wd + 7 ELSE first - wd

\* iso_to_ymd: day d of ISO week w of year y.  Week 53 exists in a year that
\* starts on a Thursday, and in a leap year that starts on a Wednesday.  Year
\* 0 leaves the proleptic calendar: no date is made of it.
iso_to_ymd(y, w, d) ==
    LET wd1 == Weekday(DaysFromCivil(y, 1, 1))
    IN  IF y < 1 \/ w < 1 \/ w > 53 \/ d < 1 \/ d > 7 THEN DateError
        ELSE IF w = 53 /\ ~(wd1 = 3 \/ (wd1 = 2 /\ IsLeap(y))) THEN DateError
        ELSE [ok |-> TRUE, days |-> iso_week1_monday(y) + (w - 1) * 7 + d - 1]

\* date(y, m, d) with the range checks of the constructor
CheckedDate(y, m, d) ==
    IF y < 1 \/ m < 1 \/ m > 12 \/ d < 1 THEN DateError
    ELSE IF d > DaysInMonth(y, m) THEN DateError
    ELSE [ok |-> TRUE, days |-> DaysFromCivil(y, m, d)]

\* a date that lies in the years 1..9999
InRange(r) ==
    IF r.ok /\ CivilFromDays(r.days).year \in 1..9999 THEN r ELSE DateError

\* parse_isoformat_date on the text s, of which the first len characters are
\* the date: [ok, days].  Characters after an eight-character date are not
\* looked at
parse_isoformat_date(s, len) ==
    IF ~DigitsAt(s, 1, 4) THEN DateError
    ELSE LET y   == NumVal(SubSeq(s, 1, 4))
             sep == CharAt(s, 5) = "-"
             p   == IF sep THEN 6 ELSE 5
         IN  IF CharAt(s, p) = "W"
             THEN IF ~DigitsAt(s, p + 1, 2) THEN DateError
                  ELSE LET w == NumVal(SubSeq(s, p + 1, p + 2))
                           q == IF sep THEN p + 4 ELSE p + 3
                       IN  IF p + 2 >= len THEN InRange(iso_to_ymd(y, w, 1))
                           ELSE IF sep /\ CharAt(s, p + 3) # "-" THEN DateError
                           ELSE IF ~DigitsAt(s, q, 1) THEN DateError
                           ELSE InRange(iso_to_ymd(y, w, DigitVal(CharAt(s, q))))
             ELSE IF ~DigitsAt(s, p, 2) THEN DateError
             ELSE IF sep /\ CharAt(s, p + 2) # "-" THEN DateError
             ELSE LET q == IF sep THEN p + 3 ELSE p + 2
                  IN  IF ~DigitsAt(s, q, 2) THEN DateError
                      ELSE CheckedDate(y, NumVal(SubSeq(s, p, p + 1)),
                                       NumVal(SubSeq(s, q, q + 1)))

\* date.fromisoformat(s): [ok, days]
date_fromisoformat(s) ==
    IF Len(s) \in {7, 8, 10} THEN parse_isoformat_date(s, Len(s)) ELSE DateError

\* _find_isoformat_datetime_separator: the number of characters of the date
\* in a text of seven characters or more, -1 if it has none
find_isoformat_datetime_separator(s) ==
    IF Len(s) = 7 THEN 7
    ELSE IF CharAt(s, 5) = "-"
    THEN IF CharAt(s, 6) # "W" THEN 10
         ELSE IF Len(s) > 8 /\ CharAt(s, 9) = "-"
         THEN IF Len(s) = 9 THEN -1
              ELSE IF Len(s) > 10 /\ CharAt(s, 11) \in Digits THEN 8
              ELSE 10
         ELSE 8
    ELSE IF CharAt(s, 5) = "W"
    THEN LET stops == {k \in 8..Len(s) : CharAt(s, k) \notin Digits}
             n     == IF stops = {} THEN Len(s) ELSE SetMin(stops) - 1
         IN  IF n < 9 THEN n ELSE IF n % 2 = 0 THEN 7 ELSE 8
    ELSE 8

\* a result of parse_hh_mm_ss_ff: rv is 0 when the text was read to its end,
\* 1 when something is left, negative when it is no time
ClockResult(rv, vals, us) ==
    [rv |-> rv,
     h  |-> IF Len(vals) >= 1 THEN vals[1] ELSE 0,
     mi |-> IF Len(vals) >= 2 THEN vals[2] ELSE 0,
     sec |-> IF Len(vals) >= 3 THEN vals[3] ELSE 0,
     us |-> us]

\* the character at position p of the text t that nxt follows
ClockChar(t, nxt, p) == IF p = Len(t) + 1 THEN nxt ELSE CharAt(t, p)

\* parse_hh_mm_ss_ff, the fraction: up to six digits are read as microseconds
\* and further digits passed over
ParseFraction(t, nxt, p, vals) ==
    LET rem == Len(t) - p + 1
        n   == IF rem >= 6 THEN 6 ELSE rem
    IN  IF ~DigitsAt(t, p, n) THEN ClockResult(-3, <<>>, 0)
        ELSE LET stops == {k \in (p + n)..Len(t) : CharAt(t, k) \notin Digits}
                 q     == IF stops = {} THEN Len(t) + 1 ELSE SetMin(stops)
             IN  ClockResult(IF ClockChar(t, nxt, q) # "" THEN 1 ELSE 0, vals,
                             NumVal(SubSeq(SubSeq(t, p, p + n - 1) \o "000000", 1, 6)))

\* parse_hh_mm_ss_ff, the loop over hour, minute and second: component i of
\* the text t starts at position p; the character after the hour decides
\* whether ":" separates the components
RECURSIVE ParseClock(_, _, _, _, _, _)
ParseClock(t, nxt, i, p, has_separator, vals) ==
    IF ~(ClockChar(t, nxt, p) \in Digits /\ ClockChar(t, nxt, p + 1) \in Digits)
    THEN ClockResult(-3, <<>>, 0)
    ELSE LET got == Append(vals, NumVal(SubSeq(t, p, p + 1)))
             c   == ClockChar(t, nxt, p + 2)
             sep == IF i = 0 THEN c = ":" ELSE has_separator
         IN  IF p + 3 > Len(t) THEN ClockResult(IF c # "" THEN 1 ELSE 0, got, 0)
             ELSE IF sep /\ c = ":"
             THEN IF i < 2 THEN ParseClock(t, nxt, i + 1, p + 3, sep, got)
                  ELSE ParseFraction(t, nxt, p + 3, got)
             ELSE IF c = "." \/ c = ","
             THEN ParseFraction(t, nxt, p + 3, got)
             ELSE IF ~sep
             THEN IF i < 2 THEN ParseClock(t, nxt, i + 1, p + 2, sep, got)
                  ELSE ParseFraction(t, nxt, p + 2, got)
             ELSE ClockResult(-4, <<>>, 0)

\* parse_hh_mm_ss_ff on the text t that the character nxt follows ("" at the
\* end of the string)
parse_hh_mm_ss_ff(t, nxt) == ParseClock(t, nxt, 0, 1, TRUE, <<>>)

\* the position of the first "Z", "+" or "-" of ts, one past its end if it
\* has none
tzinfo_pos(ts) ==
    LET marks == {k \in 1..Len(ts) : CharAt(ts, k) \in {"Z", "+", "-"}}
    IN  IF marks = {} THEN Len(ts) + 1 ELSE SetMin(marks)

TimeError == [ok |-> FALSE, sod |-> 0, us |-> 0, aware |-> FALSE, off |-> 0, offus |-> 0]

\* parse_isoformat_time with the checks of the datetime and timezone
\* constructors: [ok, sod, us, aware, off, offus], sod the second of the day.
\* The offset starts at the first "Z", "+" or "-"; what the time leaves unread
\* before an offset is passed over; an offset of zero seconds is UTC
parse_isoformat_time(ts) ==
    With(tzinfo_pos(ts), LAMBDA z :
    With(parse_hh_mm_ss_ff(SubSeq(ts, 1, z - 1), CharAt(ts, z)), LAMBDA tm :
    LET sod == tm.h * 3600 + tm.mi * 60 + tm.sec
    IN  IF tm.rv < 0 \/ tm.h > 23 \/ tm.mi > 59 \/ tm.sec > 59 THEN TimeError
        ELSE IF z = Len(ts) + 1
        THEN IF tm.rv = 1 THEN TimeError
             ELSE [ok |-> TRUE, sod |-> sod, us |-> tm.us, aware |-> FALSE,
                   off |-> 0, offus |-> 0]
        ELSE IF CharAt(ts, z) = "Z"
        THEN IF z # Len(ts) THEN TimeError
             ELSE [ok |-> TRUE, sod |-> sod, us |-> tm.us, aware |-> TRUE,
                   off |-> 0, offus |-> 0]
        ELSE With(parse_hh_mm_ss_ff(StrFrom(ts, z), ""), LAMBDA tz :
             LET sgn == IF CharAt(ts, z) = "-" THEN -1 ELSE 1
                 off == tz.h * 3600 + tz.mi * 60 + tz.sec
             IN  IF tz.rv # 0 \/ off >= 86400 THEN TimeError
                 ELSE [ok |-> TRUE, sod |-> sod, us |-> tm.us, aware |-> TRUE,
                       off |-> sgn * off,
                       offus |-> IF off = 0 THEN 0 ELSE sgn * tz.us])))

\* datetime.fromisoformat(s): [ok |-> TRUE, dt |-> datetime] or ParseError
fromisoformat(s) ==
    IF Len(s) < 7 THEN ParseError
    ELSE With(find_isoformat_datetime_separator(s), LAMBDA loc :
         With(IF loc < 0 THEN DateError ELSE parse_isoformat_date(s, loc), LAMBDA d :
             IF ~d.ok THEN ParseError
             ELSE IF Len(s) <= loc
             THEN [ok |-> TRUE, dt |-> NaiveDt(d.days * 86400, 0)]
             ELSE With(parse_isoformat_time(StrFrom(s, loc + 1)), LAMBDA t :
                      IF ~t.ok THEN ParseError
                      ELSE [ok |-> TRUE,
                            dt |-> [wall   |-> d.days * 86400 + t.sod,
                                    us     |-> t.us,
                                    off    |-> t.off,
                                    offus  |-> t.offus,
                                    aware  |-> t.aware,
                                    tzinfo |-> IF ~t.aware THEN ""
                                               ELSE IF t.off = 0 /\ t.offus = 0
                                               THEN TzUtc ELSE TzFixed]])))

(***************************************************************************)
(* strftime                                                                *)
(***************************************************************************)
DayNames == <<"Monday", "Tuesday", "Wednesday", "Thursday", "Friday", "Saturday", "Sunday">>

MonthNames == <<"January", "February", "March", "April", "May", "June", "July",
                "August", "September", "October", "November", "December">>

\* d.strftime("%Y%m%d"); %Y of the C library writes the year without padding
FormatDateBasic(days) ==
    LET c == CivilFromDays(days)
    IN  ToString(c.year) \o ZeroPad(c.month, 2) \o ZeroPad(c.day, 2)

\* d.strftime("%A, %B %-d, %Y")
FormatDateLong(days) ==
    LET c == CivilFromDays(days)
    IN  DayNames[Weekday(days) + 1] \o ", " \o MonthNames[c.month] \o " "
            \o ToString(c.day) \o ", " \o ToString(c.year)

\* dt.strftime("%-I:%M %p")
FormatClock12(dt) ==
    LET sod == dt.wall % 86400
        h   == sod \div 3600
        mi  == (sod % 3600) \div 60
        h12 == IF h % 12 = 0 THEN 12 ELSE h % 12
    IN  ToString(h12) \o ":" \o ZeroPad(mi, 2) \o " " \o (IF h < 12 THEN "AM" ELSE "PM")

\* dt.strftime("%Y%m%dT%H%M%SZ")
FormatUtcBasic(dt) ==
    LET sod == dt.wall % 86400
    IN  FormatDateBasic(dt.wall \div 86400) \o "T" \o ZeroPad(sod \div 3600, 2)
            \o ZeroPad((sod % 3600) \div 60, 2) \o ZeroPad(sod % 60, 2) \o "Z"

(***************************************************************************)
(* json_to_ics.py: escape_ics_text                                         *)
(***************************************************************************)
\* the replacements in another order: the backslash escaped last
escape_ics_text_backslash_last(s) ==
    Replace(Replace(Replace(Replace(s, "\n", "\\n"), ";", "\\;"), ",", "\\,"),
            "\\", "\\\\")

escape_ics_text(s) ==
    LET s1 == Replace(s, "\\", "\\\\")
        s2 == Replace(s1, "\n", "\\n")
        s3 == Replace(s2, ";", "\\;")
        s4 == Replace(s3, ",", "\\,")
    IN  s4

(***************************************************************************)
(* json_to_ics.py: fold_ics_line                                           *)
(***************************************************************************)
FoldLimit == 75

\* the list `out` of the loop, from the remaining `rest`
RECURSIVE FoldLoop(_, _, _)
FoldLoop(out, rest, limit) ==
    IF Len(rest) > limit
    THEN FoldLoop(Append(out, StrTo(rest, limit)), " " \o StrFrom(rest, limit), limit)
    ELSE Append(out, rest)

\* a fold that drops the character at which it breaks
fold_ics_line_drop(ln, limit) ==
    IF Len(ln) <= limit THEN ln
    ELSE Join(FoldLoop(<<StrTo(ln, limit)>>, " " \o StrFrom(ln, limit + 1), limit), CRLF)

fold_ics_line(ln, limit) ==
    IF Len(ln) <= limit THEN ln
    ELSE Join(FoldLoop(<<>>, ln, limit), CRLF)

(***************************************************************************)
(* More of str                                                             *)
(***************************************************************************)
\* the cased letters a string of this module can hold (U+0001 to U+00FF)
UpperLetters == "ABCDEFGHIJKLMNOPQRSTUVWXYZ" \o "ÀÁÂÃÄÅÆÇÈÉÊËÌÍÎÏÐÑÒÓÔÕÖØÙÚÛÜÝÞ"
LowerLetters == "abcdefghijklmnopqrstuvwxyz" \o "àáâãäåæçèéêëìíîïðñòóôõöøùúûüýþ"

\* s.lower()
RECURSIVE Lower(_)
Lower(s) ==
    IF Len(s) = 0 THEN ""
    ELSE With(IndexFrom(UpperLetters, CharAt(s, 1), 1), LAMBDA k :
             (IF k = 0 THEN CharAt(s, 1) ELSE CharAt(LowerLetters, k))
                 \o Lower(StrFrom(s, 1)))

\* the characters str.strip() takes off that a string of this module can
\* hold: space, tab, line feed, carriage return, form feed, vertical tab
\* (U+000B), the separators U+001C to U+001F, next line (U+0085) and no-break
\* space (U+00A0)
Whitespace ==
    {" ", "\t", "\n", "\r", "\f", "", "", "", "", "", "", " "}

\* s.strip()
RECURSIVE Strip(_)
Strip(s) ==
    IF Len(s) = 0 THEN ""
    ELSE IF CharAt(s, 1) \in Whitespace THEN Strip(StrFrom(s, 1))
    ELSE IF CharAt(s, Len(s)) \in Whitespace THEN Strip(SubSeq(s, 1, Len(s) - 1))
    ELSE s

(***************************************************************************)
(* The JSON input.  An event record is [keys, id, title, start, end,       *)
(* allDay, location, notes]: keys is the set of the keys the JSON object   *)
(* has; a field whose key is absent holds "" (FALSE for allDay) and is     *)
(* never read as present.                                                  *)
(***************************************************************************)
Has(e, key) == key \in e.keys

\* e.get(key) or "": an absent key and an empty string read alike
GetOrEmpty(e, key) ==
    IF ~Has(e, key) THEN ""
    ELSE CASE key = "id"       -> e.id
           [] key = "title"    -> e.title
           [] key = "start"    -> e.start
           [] key = "end"      -> e.end
           [] key = "location" -> e.location
           [] key = "notes"    -> e.notes

\* payload.get("events", [])
PayloadEvents(p) == IF p.has_events THEN p.events ELSE <<>>

\* the zone a naive datetime is read in by astimezone(): the TZ of the
\* environment, or the host's zone when TZ is unset
HostZone == "UTC"
SystemZone(tzEnv) == IF tzEnv.set THEN tzEnv.value ELSE HostZone

(***************************************************************************)
(* Query-JSON.py                                                           *)
(***************************************************************************)
LOCAL_TZ == "America/New_York"

\* parse_iso8601_z: [ok, dt], dt in UTC
parse_iso8601_z(s, sysZone) ==
    LET s1 == IF EndsWith(s, "Z") THEN SubSeq(s, 1, Len(s) - 1) \o "+00:00" ELSE s
    IN  With(fromisoformat(s1), LAMBDA r :
            IF r.ok THEN [ok |-> TRUE, dt |-> AsUtc(r.dt, sysZone)] ELSE ParseError)

\* day_bounds_utc: <<start, end>> of the local day in UTC
day_bounds_utc(date, tz) ==
    LET startWall   == date * 86400
        endWall     == startWall + 86400
        start_local == Aware(startWall, 0, WallOffset(tz, startWall), tz)
        end_local   == Aware(endWall, 0, WallOffset(tz, endWall), tz)
    IN  <<AsUtc(start_local, tz), AsUtc(end_local, tz)>>

\* an overlap test that takes touching intervals too
overlaps_closed(a_start, a_end, b_start, b_end) ==
    ~DtGreater(a_start, b_end) /\ ~DtLess(a_end, b_start)

overlaps(a_start, a_end, b_start, b_end) ==
    DtLess(a_start, b_end) /\ DtGreater(a_end, b_start)

\* resolve_target_date: [ok, date]; has_arg is FALSE for arg = None
resolve_target_date(has_arg, arg, tz, now) ==
    With(DateOf(AsZone(now, tz)), LAMBDA today :
        IF ~has_arg \/ Lower(arg) = "today" THEN [ok |-> TRUE, date |-> today]
        ELSE IF Lower(arg) = "tomorrow" THEN [ok |-> TRUE, date |-> today + 1]
        ELSE With(date_fromisoformat(arg), LAMBDA d :
                 IF d.ok THEN [ok |-> TRUE, date |-> d.days]
                 ELSE [ok |-> FALSE, date |-> 0]))

\* format_time_range; the en dash of the source is written "-" here
format_time_range(start_local, end_local, all_day) ==
    IF all_day THEN "All Day"
    ELSE FormatClock12(start_local) \o " - " \o FormatClock12(end_local)

\* "start" not in e or "end" not in e
AgendaSkips(e) == ~Has(e, "start") \/ ~Has(e, "end")

\* the match appended for an event
MatchOf(e, start_utc, end_utc) ==
    [title   |-> IF GetOrEmpty(e, "title") = "" THEN "(No Title)" ELSE e.title,
     start   |-> AsZone(start_utc, LOCAL_TZ),
     end     |-> AsZone(end_utc, LOCAL_TZ),
     all_day |-> IF Has(e, "allDay") THEN e.allDay ELSE FALSE]

\* m put into the sorted list after every element that does not start later
InsertByStart(sorted, m) ==
    LET pos == Cardinality({j \in 1..Len(sorted) : ~DtLess(m.start, sorted[j].start)})
    IN  SubSeq(sorted, 1, pos) \o <<m>> \o SubSeq(sorted, pos + 1, Len(sorted))

\* matches.sort(key=lambda x: x["start"]): a stable sort
RECURSIVE SortByStart(_)
SortByStart(ms) ==
    IF Len(ms) = 0 THEN <<>>
    ELSE InsertByStart(SortByStart(SubSeq(ms, 1, Len(ms) - 1)), ms[Len(ms)])

\* the line printed for a match
MatchLine(m) ==
    LeftAlign(format_time_range(m.start, m.end, m.all_day), 18) \o " " \o m.title

AgendaUsage == "Usage: events_for_day.py <events.json> [today|tomorrow|YYYY-MM-DD]"
AgendaBadDate == "Date must be \"today\", \"tomorrow\", or YYYY-MM-DD."
Traceback == "Traceback (most recent call last): ValueError"

(***************************************************************************)
(* json_to_ics.py                                                          *)
(***************************************************************************)
\* os.environ.get("TZ", "America/New_York")
ExportZone(tzEnv) == IF tzEnv.set THEN tzEnv.value ELSE "America/New_York"

\* a guard that looks at the end only
ExportSkips_end_only(e) == GetOrEmpty(e, "end") = ""

\* not start_raw or not end_raw
ExportSkips(e) == GetOrEmpty(e, "start") = "" \/ GetOrEmpty(e, "end") = ""

\* parse_iso8601: [ok, dt], dt naive or aware as written
parse_iso8601(s) ==
    fromisoformat(IF EndsWith(s, "Z") THEN SubSeq(s, 1, Len(s) - 1) \o "+00:00" ELSE s)

\* to_utc_z; astimezone reads a naive dt in the zone of the process
to_utc_z(dt) == FormatUtcBasic(AsUtc(dt, SystemZone(envTZ)))

\* dt.replace(tzinfo=timezone.utc) if dt.tzinfo is None
NormalizeAware(dt) == IF dt.aware THEN dt ELSE Aware(dt.wall, dt.us, 0, TzUtc)

\* the characters a string of this module can hold, in the order of their
\* code points: U+0001 to U+00FF without the grave accent (U+0060)
CharTable ==
    "\t\n\f\r"
        \o " !\"#$%&'()*+,-./0123456789:;<=>?@ABCDEFGHIJKLMNOPQRSTUVWXYZ[\\]^_"
        \o "abcdefghijklmnopqrstuvwxyz{|}~"
        \o " ¡¢£¤¥¦§¨©ª«¬­®¯°±²³´µ¶·¸¹º»¼½¾¿"
        \o "ÀÁÂÃÄÅÆÇÈÉÊËÌÍÎÏÐÑÒÓÔÕÖ×ØÙÚÛÜÝÞßàáâãäåæçèéêëìíîïðñòóôõö÷øùúûüýþÿ"

\* the code point of every character of the table
CodePoints ==
    [c \in {CharAt(CharTable, k) : k \in 1..Len(CharTable)} |->
        With(IndexFrom(CharTable, c, 1), LAMBDA k : IF k >= 96 THEN k + 1 ELSE k)]

\* ord(c)
Ord(c) == CodePoints[c]

\* A hash value stands for the 64-bit number of the interpreter: a sign (1 is
\* negative) and four limbs of its size, each below its own modulus; the
\* number itself does not fit the integers at hand
HashModuli == <<2, 9221, 44987, 44983, 44971>>

\* The state of the mixing: eight lanes, lane i a residue of the prime
\* LaneModuli[i].  Every prime leaves 2 when divided by 3, so that the cube is
\* a permutation of the residues
LaneModuli == <<46337, 46307, 46301, 46271, 46229, 46199, 46187, 46181>>

Cube(x, p) == (((x * x) % p) * x) % p

\* the lanes of the key the interpreter drew at start-up (PYTHONHASHSEED unset)
HashKey(seed) ==
    [i \in 1..8 |-> ((seed % LaneModuli[i]) * 7919 + 5381 * i) % LaneModuli[i]]

\* the lanes a tuple starts from
TupleKey == [i \in 1..8 |-> 40503 - 1009 * i]

\* lane i of the lanes h after the number c, below every prime, is mixed in
Lane(h, c, i) == Cube((h[i] + c) % LaneModuli[i], LaneModuli[i])

\* one number mixed into the lanes h
Absorb(h, c) ==
    <<Lane(h, c, 1), Lane(h, c, 2), Lane(h, c, 3), Lane(h, c, 4),
      Lane(h, c, 5), Lane(h, c, 6), Lane(h, c, 7), Lane(h, c, 8)>>

\* the numbers cs mixed into the lanes h one after the other (the lanes of
\* the first half are worked out before the second half is mixed in)
RECURSIVE Mix(_, _)
Mix(h, cs) ==
    IF Len(cs) = 0 THEN h
    ELSE IF Len(cs) = 1 THEN Absorb(h, cs[1])
    ELSE With(Mix(h, SubSeq(cs, 1, Len(cs) \div 2)), LAMBDA a :
             IF Len(a) = 8 THEN Mix(a, SubSeq(cs, Len(cs) \div 2 + 1, Len(cs))) ELSE a)

\* the hash value read off the lanes
Limb(h, i) == (h[i - 1] + 211 * h[i + 3]) % HashModuli[i]

Finish(h) == <<(h[1] + h[8]) % 2, Limb(h, 2), Limb(h, 3), Limb(h, 4), Limb(h, 5)>>

\* hash(s) of a str: 0 for the empty string, else the characters mixed into
\* the key of the process.  The mixing stands for SipHash: it tells two
\* strings apart wherever a number of this size can, and gives another
\* number under another key
StrHash(seed, s) ==
    IF Len(s) = 0 THEN <<0, 0, 0, 0, 0>>
    ELSE Finish(Mix(HashKey(seed), [k \in 1..Len(s) |-> Ord(CharAt(s, k))]))

\* hash((title, start, end)) of three strings: the hashes of the three mixed
\* in their order, without a key
TupleHash(seed, title, start, end) ==
    With(StrHash(seed, title), LAMBDA a :
    With(StrHash(seed, start), LAMBDA b :
    With(StrHash(seed, end), LAMBDA c :
        Finish(Mix(TupleKey, a \o b \o c)))))

\* abs(n) of a hash value
Abs(n) == [n EXCEPT ![1] = 0]

\* the limbs ls in decimal, without leading zeros
RECURSIVE LimbDigits(_)
LimbDigits(ls) ==
    IF Len(ls) = 1 THEN ToString(ls[1])
    ELSE IF ls[1] = 0 THEN LimbDigits(Tail(ls))
    ELSE ToString(ls[1]) \o ZeroPad(ls[2], 5)
             \o (IF Len(ls) >= 3 THEN ZeroPad(ls[3], 5) ELSE "")
             \o (IF Len(ls) >= 4 THEN ZeroPad(ls[4], 5) ELSE "")

\* str(n) of a hash value
HashText(n) == (IF n[1] = 1 THEN "-" ELSE "") \o LimbDigits(Tail(n))

\* title of an event
TitleOf(e) ==
    LET t == Strip(GetOrEmpty(e, "title")) IN IF t = "" THEN "(No Title)" ELSE t

\* uid of an event that has start and end.  (Line 97 computes it before the
\* guard of line 102 and hashes None for an absent key; the uid of a record
\* the guard skips is never used.)
UidOf(e, seed) ==
    LET id == Strip(GetOrEmpty(e, "id"))
    IN  IF id # "" THEN id
        ELSE "no-id-" \o HashText(Abs(TupleHash(seed, TitleOf(e), e.start, e.end)))

\* an end date that is forced only when it lies before the start date
AllDayEnd_before_only(start_local_date, end_local_date) ==
    IF end_local_date < start_local_date THEN start_local_date + 1 ELSE end_local_date

\* the exclusive end date of an all-day event
AllDayEnd(start_local_date, end_local_date) ==
    IF end_local_date <= start_local_date THEN start_local_date + 1 ELSE end_local_date

\* date lines that leave the DTEND of an all-day event out
DateLines_no_dtend(all_day, start_dt, end_dt, tz) ==
    IF all_day
    THEN <<"DTSTART;VALUE=DATE:" \o FormatDateBasic(DateOf(AsZone(start_dt, tz)))>>
    ELSE <<"DTSTART:" \o to_utc_z(start_dt), "DTEND:" \o to_utc_z(end_dt)>>

\* the DTSTART and DTEND lines
DateLines(all_day, start_dt, end_dt, tz) ==
    IF all_day
    THEN With(DateOf(AsZone(start_dt, tz)), LAMBDA start_local_date :
         With(DateOf(AsZone(end_dt, tz)), LAMBDA end_local_date :
             <<"DTSTART;VALUE=DATE:" \o FormatDateBasic(start_local_date),
               "DTEND;VALUE=DATE:"
                   \o FormatDateBasic(AllDayEnd(start_local_date, end_local_date))>>))
    ELSE <<"DTSTART:" \o to_utc_z(start_dt), "DTEND:" \o to_utc_z(end_dt)>>

\* the list vevent built for an event whose timestamps parsed
VEventLines(e, start_dt, end_dt, tz, now, seed) ==
    LET all_day  == IF Has(e, "allDay") THEN e.allDay ELSE FALSE
        location == Strip(GetOrEmpty(e, "location"))
        notes    == Strip(GetOrEmpty(e, "notes"))
    IN  <<"BEGIN:VEVENT",
          "UID:" \o escape_ics_text(UidOf(e, seed)),
          "DTSTAMP:" \o to_utc_z(now)>>
        \o DateLines(all_day, start_dt, end_dt, tz)
        \o <<"SUMMARY:" \o escape_ics_text(TitleOf(e))>>
        \o (IF location # "" THEN <<"LOCATION:" \o escape_ics_text(location)>> ELSE <<>>)
        \o (IF notes # "" THEN <<"DESCRIPTION:" \o escape_ics_text(notes)>> ELSE <<>>)
        \o <<"END:VEVENT">>

\* [fold_ics_line(line) for line in vevent]
FoldAll(ls) == [k \in 1..Len(ls) |-> fold_ics_line(ls[k], FoldLimit)]

CalendarHeader ==
    <<"BEGIN:VCALENDAR",
      "VERSION:2.0",
      "PRODID:-//Apple-Calendar-to-Json//caldump-json-to-ics//EN",
      "CALSCALE:GREGORIAN",
      "METHOD:PUBLISH">>

ExportUsage == "Usage: python3 json_to_ics.py <input.json> <output.ics>"

\* the confirmation line
ConfirmationOf(out_path, events) ==
    "OK: wrote ICS to " \o out_path \o " (events: " \o ToString(Len(events)) \o ")"

(***************************************************************************)
(* Bounds of the inputs                                                    *)
(***************************************************************************)
MaxLineLen == 230      \* longest line handed to fold_ics_line
MaxTextLen == 4        \* longest text handed to escape_ics_text

\* pattern repeated until it has at least n characters
RECURSIVE RepeatTo(_, _)
RepeatTo(pattern, n) ==
    IF Len(pattern) >= n THEN pattern ELSE RepeatTo(pattern \o pattern, n)

\* the first n characters of pattern repeated
CyclicPrefix(pattern, n) == SubSeq(RepeatTo(pattern, n), 1, n)

FoldPatterns == {"a", " ", "ab c", "SUMMARY:x\\, y\\;z"}

FoldInputs == {CyclicPrefix(p, n) : p \in FoldPatterns, n \in 0..MaxLineLen}

EscAlphabet == {"\\", "\n", ";", ",", "a", "n"}

RECURSIVE StringsUpTo(_, _)
StringsUpTo(alphabet, n) ==
    IF n = 0 THEN {""}
    ELSE LET S == StringsUpTo(alphabet, n - 1)
         IN  S \cup {s \o c : s \in S, c \in alphabet}

EscInputs == StringsUpTo(EscAlphabet, MaxTextLen)

(***************************************************************************)
(* Inputs of the two tools                                                 *)
(***************************************************************************)
MaxEvents == 3         \* longest "events" list of a payload
NumSeeds == 2          \* hash seeds a process may draw

AllKeys == {"id", "title", "start", "end", "allDay", "location", "notes"}

Ev(keys, id, title, start, end, allDay, location, notes) ==
    [keys |-> keys, id |-> id, title |-> title, start |-> start, end |-> end,
     allDay |-> allDay, location |-> location, notes |-> notes]

AgendaPool ==
    { Ev(AllKeys, "a1", "Standup", "2026-02-19T14:00:00.000Z", "2026-02-19T14:15:00.000Z",
         FALSE, "", ""),
      Ev(AllKeys, "a2", "Review", "2026-02-19T09:00:00-05:00", "2026-02-19T10:00:00-05:00",
         FALSE, "", ""),
      Ev({"title", "start", "end"}, "", "Reminder", "2026-02-19T17:30:00Z",
         "2026-02-19T17:30:00Z", FALSE, "", ""),
      Ev({"title", "start", "end"}, "", "Midnight", "2026-02-19T05:00:00Z",
         "2026-02-19T05:00:00Z", FALSE, "", ""),
      Ev({"id", "start", "end", "allDay"}, "a5", "", "2026-02-19T05:00:00Z",
         "2026-02-20T05:00:00Z", TRUE, "", ""),
      Ev({"id", "title", "start"}, "a6", "Open end", "2026-02-19T15:00:00Z", "", FALSE, "", ""),
      Ev(AllKeys, "a7", "Broken", "2026-02-30T10:00:00Z", "2026-02-30T11:00:00Z",
         FALSE, "", ""),
      Ev(AllKeys, "a8", "Late", "20260218T230000-0500", "20260219T000000-0500",
         FALSE, "", ""),
      Ev(AllKeys, "a9", "First", "2026-11-01T05:30:00Z", "2026-11-01T05:45:00Z",
         FALSE, "", ""),
      Ev(AllKeys, "a10", "Second", "2026-11-01T06:15:00Z", "2026-11-01T06:30:00Z",
         FALSE, "", ""),
      Ev(AllKeys, "a11", "Odd", "2026-02-19S10:00:00Z", "2026-02-19T11:00:00Z",
         FALSE, "", "") }

ExportPool ==
    { Ev(AllKeys, "a1", "Standup", "2026-02-19T14:00:00.000Z", "2026-02-19T14:15:00.000Z",
         FALSE, "Room 4, 2nd floor",
         "Agenda: status; blockers\nBring notes \\ slides, and the list of open items"),
      Ev({"title", "start", "end", "allDay"}, "", "  ", "2026-02-19T00:00:00Z",
         "2026-02-19T00:00:00Z", TRUE, "", ""),
      Ev({"id", "title", "end"}, " ", "No start", "", "2026-02-19T15:00:00Z", FALSE, "", ""),
      Ev(AllKeys, "a4", "Broken", "2026-02-19T10:00:00Z", "2026-02-30T11:00:00Z",
         FALSE, "", ""),
      Ev({"id", "title", "start", "end"}, "a5", "Empty start", "", "2026-02-19T15:00:00Z",
         FALSE, "", ""),
      Ev({"id", "title", "start", "end", "allDay"}, " ", "Trip", "2026-02-19T00:00:00",
         "2026-02-21T00:00:00-05:00", TRUE, "", "") }

RECURSIVE SeqsUpTo(_, _)
SeqsUpTo(S, n) ==
    IF n = 0 THEN {<<>>}
    ELSE LET T == SeqsUpTo(S, n - 1)
         IN  T \cup {Append(t, x) : t \in T, x \in S}

Payloads(pool) ==
    {[has_events |-> TRUE, events |-> es] : es \in SeqsUpTo(pool, MaxEvents)}
        \cup {[has_events |-> FALSE, events |-> <<>>]}

TzUnset == [set |-> FALSE, value |-> ""]
TzOf(name) == [set |-> TRUE, value |-> name]

\* 2026-02-19T03:00:00Z: the evening of February 18 in New York
StartClock == DaysFromCivil(2026, 2, 19) * 86400 + 3 * 3600

AgendaArgvs ==
    { <<>>,
      <<"events.json">>,
      <<"events.json", "Tomorrow">>,
      <<"events.json", "2026-02-19">>,
      <<"events.json", "2026-11-01">>,
      <<"events.json", "20260308">>,
      <<"events.json", "02/19/2026">> }

ExportArgvs == { <<"exchange.json">>, <<"exchange.json", "exchange.ics">> }

(***************************************************************************)
(* The agenda tool: main of Query-JSON.py                                  *)
(***************************************************************************)
NoDt == Aware(0, 0, 0, TzUtc)
NoFile == [exists |-> FALSE, content |-> ""]

textVars   == <<line, folded, text, escaped>>
agendaVars == <<target_date, day_start_utc, day_end_utc, matches>>
exportVars == <<hashSeed, lines, file, prevFile, rerun>>
inputVars  == <<argv, payload, envTZ>>
progVars   == <<prog, inputVars, clock, idx, stdout, stderr, exit_code, agendaVars, exportVars>>

TextIdle   == line = "" /\ folded = "" /\ text = "" /\ escaped = ""
AgendaIdle == target_date = 0 /\ day_start_utc = NoDt /\ day_end_utc = NoDt /\ matches = <<>>
ExportIdle == hashSeed = 0 /\ lines = <<>> /\ file = NoFile /\ prevFile = NoFile /\ rerun = FALSE

\* datetime.now(timezone.utc) and datetime.now(tz)
Now == Aware(clock, 0, 0, TzUtc)

\* the argument checks, the target date and its window (lines 51-66)
AgendaStart ==
    /\ pc = "agenda_main"
    /\ IF Len(argv) < 1
       THEN /\ stdout' = <<AgendaUsage>>
            /\ exit_code' = 2
            /\ pc' = "exited"
            /\ UNCHANGED <<stderr, idx, agendaVars>>
       ELSE With(resolve_target_date(Len(argv) >= 2,
                                     IF Len(argv) >= 2 THEN argv[2] ELSE "",
                                     LOCAL_TZ, Now), LAMBDA r :
                IF ~r.ok
                THEN /\ stderr' = <<AgendaBadDate>>
                     /\ exit_code' = 1
                     /\ pc' = "exited"
                     /\ UNCHANGED <<stdout, idx, agendaVars>>
                ELSE With(day_bounds_utc(r.date, LOCAL_TZ), LAMBDA bounds :
                     /\ target_date' = r.date
                     /\ day_start_utc' = bounds[1]
                     /\ day_end_utc' = bounds[2]
                     /\ matches' = <<>>
                     /\ idx' = 1
                     /\ pc' = "agenda_loop"
                     /\ UNCHANGED <<stdout, stderr, exit_code>>))
    /\ UNCHANGED <<prog, inputVars, clock, textVars, exportVars>>

\* one iteration of the loop over the events (lines 68-84)
AgendaEvent ==
    /\ pc = "agenda_loop"
    /\ idx <= Len(PayloadEvents(payload))
    /\ LET e == PayloadEvents(payload)[idx]
       IN  IF AgendaSkips(e)
           THEN /\ idx' = idx + 1
                /\ UNCHANGED <<pc, matches, stderr, exit_code>>
           ELSE With(parse_iso8601_z(e.start, SystemZone(envTZ)), LAMBDA s :
                With(parse_iso8601_z(e.end, SystemZone(envTZ)), LAMBDA n :
                    IF ~s.ok \/ ~n.ok
                    THEN /\ stderr' = <<Traceback>>
                         /\ exit_code' = 1
                         /\ pc' = "exited"
                         /\ UNCHANGED <<idx, matches>>
                    ELSE /\ matches' = IF overlaps(s.dt, n.dt, day_start_utc, day_end_utc)
                                       THEN Append(matches, MatchOf(e, s.dt, n.dt))
                                       ELSE matches
                         /\ idx' = idx + 1
                         /\ UNCHANGED <<pc, stderr, exit_code>>))
    /\ UNCHANGED <<prog, inputVars, clock, stdout, target_date, day_start_utc, day_end_utc,
                   textVars, exportVars>>

\* the sort and the printing (lines 86-98)
AgendaPrint ==
    /\ pc = "agenda_loop"
    /\ idx > Len(PayloadEvents(payload))
    /\ matches' = SortByStart(matches)
    /\ stdout' = <<FormatDateLong(target_date), "">>
                     \o (IF Len(matches) = 0 THEN <<"No events.">>
                         ELSE [k \in 1..Len(matches) |-> MatchLine(SortByStart(matches)[k])])
    /\ exit_code' = 0
    /\ pc' = "exited"
    /\ UNCHANGED <<prog, inputVars, clock, stderr, idx, target_date, day_start_utc, day_end_utc,
                   textVars, exportVars>>

NextAgenda == AgendaStart \/ AgendaEvent \/ AgendaPrint

(***************************************************************************)
(* The exporter: main of json_to_ics.py                                    *)
(***************************************************************************)
\* the argument check and the header (lines 70-93)
ExportStart ==
    /\ pc = "export_main"
    /\ IF Len(argv) # 2
       THEN /\ stderr' = <<ExportUsage>>
            /\ exit_code' = 2
            /\ pc' = "exited"
            /\ UNCHANGED <<lines, idx>>
       ELSE /\ lines' = CalendarHeader
            /\ idx' = 1
            /\ pc' = "export_loop"
            /\ UNCHANGED <<stderr, exit_code>>
    /\ UNCHANGED <<prog, inputVars, clock, stdout, hashSeed, file, prevFile, rerun,
                   textVars, agendaVars>>

\* one iteration of the loop over the events (lines 95-148)
ExportEvent ==
    /\ pc = "export_loop"
    /\ idx <= Len(PayloadEvents(payload))
    /\ LET e == PayloadEvents(payload)[idx]
       IN  IF ExportSkips(e)
           THEN /\ idx' = idx + 1
                /\ UNCHANGED <<pc, lines, stderr, exit_code>>
           ELSE With(parse_iso8601(e.start), LAMBDA s :
                With(parse_iso8601(e.end), LAMBDA n :
                    IF ~s.ok \/ ~n.ok
                    THEN /\ stderr' = <<Traceback>>
                         /\ exit_code' = 1
                         /\ pc' = "exited"
                         /\ UNCHANGED <<idx, lines>>
                    ELSE /\ lines' = lines \o FoldAll(VEventLines(e, NormalizeAware(s.dt),
                                                                   NormalizeAware(n.dt),
                                                                   ExportZone(envTZ), Now,
                                                                   hashSeed))
                         /\ idx' = idx + 1
                         /\ UNCHANGED <<pc, stderr, exit_code>>))
    /\ UNCHANGED <<prog, inputVars, clock, stdout, hashSeed, file, prevFile, rerun,
                   textVars, agendaVars>>

\* the trailer, the file and the confirmation (lines 150-155)
ExportWrite ==
    /\ pc = "export_loop"
    /\ idx > Len(PayloadEvents(payload))
    /\ lines' = Append(lines, "END:VCALENDAR")
    /\ file' = [exists |-> TRUE, content |-> Join(Append(lines, "END:VCALENDAR"), CRLF) \o CRLF]
    /\ stdout' = <<ConfirmationOf(argv[2], PayloadEvents(payload))>>
    /\ exit_code' = 0
    /\ pc' = "exited"
    /\ UNCHANGED <<prog, inputVars, clock, stderr, idx, hashSeed, prevFile, rerun,
                   textVars, agendaVars>>

\* the exporter started once more on the same input after a successful run: a
\* new process, with its own hash seed and a later clock
ExportAgain ==
    /\ pc = "exited"
    /\ exit_code = 0
    /\ file.exists
    /\ ~rerun
    /\ rerun' = TRUE
    /\ prevFile' = file
    /\ hashSeed' \in 0..(NumSeeds - 1)
    /\ clock' = clock + 90
    /\ stdout' = <<>>
    /\ lines' = <<>>
    /\ idx' = 0
    /\ exit_code' = -1
    /\ pc' = "export_main"
    /\ UNCHANGED <<prog, inputVars, stderr, file, textVars, agendaVars>>

NextExport == ExportStart \/ ExportEvent \/ ExportWrite \/ ExportAgain

(***************************************************************************)
(* The two text functions called on their own                              *)
(***************************************************************************)
InitFold ==
    /\ pc = "fold_call"
    /\ line \in FoldInputs
    /\ folded = ""
    /\ text = ""
    /\ escaped = ""
    /\ prog = "" /\ argv = <<>> /\ payload = [has_events |-> FALSE, events |-> <<>>]
    /\ envTZ = TzUnset /\ clock = 0 /\ idx = 0 /\ stdout = <<>> /\ stderr = <<>>
    /\ exit_code = -1
    /\ AgendaIdle /\ ExportIdle

FoldCall ==
    /\ pc = "fold_call"
    /\ folded' = fold_ics_line(line, FoldLimit)
    /\ pc' = "fold_done"
    /\ UNCHANGED <<line, text, escaped, progVars>>

NextFold == FoldCall

SpecFold == InitFold /\ [][NextFold]_vars

InitEscape ==
    /\ pc = "escape_call"
    /\ text \in EscInputs
    /\ escaped = ""
    /\ line = ""
    /\ folded = ""
    /\ prog = "" /\ argv = <<>> /\ payload = [has_events |-> FALSE, events |-> <<>>]
    /\ envTZ = TzUnset /\ clock = 0 /\ idx = 0 /\ stdout = <<>> /\ stderr = <<>>
    /\ exit_code = -1
    /\ AgendaIdle /\ ExportIdle

EscapeCall ==
    /\ pc = "escape_call"
    /\ escaped' = escape_ics_text(text)
    /\ pc' = "escape_done"
    /\ UNCHANGED <<line, folded, text, progVars>>

NextEscape == EscapeCall

SpecEscape == InitEscape /\ [][NextEscape]_vars

(***************************************************************************)
(* Specifications                                                          *)
(***************************************************************************)
InitAgenda ==
    /\ prog = "Query-JSON.py"
    /\ pc = "agenda_main"
    /\ argv \in AgendaArgvs
    /\ payload \in Payloads(AgendaPool)
    /\ envTZ = TzUnset
    /\ clock = StartClock
    /\ idx = 0
    /\ stdout = <<>>
    /\ stderr = <<>>
    /\ exit_code = -1
    /\ TextIdle /\ AgendaIdle /\ ExportIdle

InitExport ==
    /\ prog = "json_to_ics.py"
    /\ pc = "export_main"
    /\ argv \in ExportArgvs
    /\ payload \in Payloads(ExportPool)
    /\ envTZ \in {TzUnset, TzOf("UTC")}
    /\ clock = StartClock
    /\ hashSeed \in 0..(NumSeeds - 1)
    /\ idx = 0
    /\ stdout = <<>>
    /\ stderr = <<>>
    /\ exit_code = -1
    /\ lines = <<>> /\ file = NoFile /\ prevFile = NoFile /\ rerun = FALSE
    /\ TextIdle /\ AgendaIdle

SpecAgenda == InitAgenda /\ [][NextAgenda]_vars

SpecExport == InitExport /\ [][NextExport]_vars

Init == InitAgenda \/ InitExport

Next == NextAgenda \/ NextExport

Spec == Init /\ [][Next]_vars

(***************************************************************************)
(* Reading a folded or escaped string back                                 *)
(***************************************************************************)
\* the elements of a set of numbers in ascending order
RECURSIVE Ascending(_)
Ascending(S) ==
    IF S = {} THEN <<>>
    ELSE LET m == CHOOSE j \in S : \A h \in S : j <= h
         IN  <<m>> \o Ascending(S \ {m})

\* s.split(sep), for a separator that cannot overlap itself
SplitOn(s, sep) ==
    LET hits == Ascending({j \in 1..(Len(s) - Len(sep) + 1) :
                              SubSeq(s, j, j + Len(sep) - 1) = sep})
        n    == Len(hits)
    IN  [i \in 1..(n + 1) |->
            SubSeq(s, IF i = 1 THEN 1 ELSE hits[i - 1] + Len(sep),
                      IF i = n + 1 THEN Len(s) ELSE hits[i] - 1)]

\* the segments of a folded line put together again: every segment after the
\* first without its first character
RECURSIVE Unfold(_)
Unfold(segs) ==
    IF Len(segs) = 0 THEN ""
    ELSE IF Len(segs) = 1 THEN segs[1]
    ELSE Unfold(SubSeq(segs, 1, Len(segs) - 1)) \o StrFrom(segs[Len(segs)], 1)

IsSpecial(c) == c \in {"\\", "\n", ";", ","}

\* the escape of one character
EscapeOf(c) ==
    CASE c = "\\" -> "\\\\"
      [] c = "\n" -> "\\n"
      [] c = ";"  -> "\\;"
      [] c = ","  -> "\\,"
      [] OTHER    -> c

RECURSIVE EscapeEach(_)
EscapeEach(s) ==
    IF Len(s) = 0 THEN "" ELSE EscapeOf(CharAt(s, 1)) \o EscapeEach(StrFrom(s, 1))

RECURSIVE CountSpecial(_)
CountSpecial(s) ==
    IF Len(s) = 0 THEN 0
    ELSE (IF IsSpecial(CharAt(s, 1)) THEN 1 ELSE 0) + CountSpecial(StrFrom(s, 1))

\* C1: fold_ics_line with limit 75 returns a line of at most 75 characters
\* unchanged; a longer line comes back as CRLF-separated segments of at most 75
\* characters each, every segment after the first starting with the one inserted
\* space, and the segments without those spaces put together are the line.
C1_FoldContract ==
    pc = "fold_done" =>
        LET segs == SplitOn(folded, CRLF)
        IN  /\ Len(line) <= 75 => folded = line
            /\ Len(line) > 75 =>
                /\ Len(segs) >= 2
                /\ \A k \in 1..Len(segs) : Len(segs[k]) <= 75
                /\ Len(segs[1]) = 75
                /\ \A k \in 2..Len(segs) : StartsWith(segs[k], " ")
                /\ Unfold(segs) = line

C1_Witness ==
    /\ pc = "fold_done"
    /\ Len(line) = 200
    /\ Len(SplitOn(folded, CRLF)) = 3

\* C2: escape_ics_text replaces each backslash, newline, semicolon and comma of
\* its input by its own two-character escape and copies every other character,
\* in order; no inserted backslash is escaped again, so the output is longer
\* than the input by the number of special characters.
C2_EscapeOncePerSpecial ==
    pc = "escape_done" =>
        /\ escaped = EscapeEach(text)
        /\ Len(escaped) = Len(text) + CountSpecial(text)

C2_Witness ==
    /\ pc = "escape_done"
    /\ text = ",;\\\n"
    /\ escaped = "\\,\\;\\\\\\n"

(***************************************************************************)
(* Reading the inputs and outputs back, for the properties                 *)
(***************************************************************************)
Events == PayloadEvents(payload)

\* the instant a timestamp denotes: fromisoformat after the "Z" replacement
TimestampOf(s) ==
    fromisoformat(IF EndsWith(s, "Z") THEN SubSeq(s, 1, Len(s) - 1) \o "+00:00" ELSE s)

ValidTimestamp(s) == TimestampOf(s).ok

\* the UTC instant of a timestamp with an offset, as <<seconds, microseconds>>
\* (the agenda tool reads a timestamp without offset in the zone of the
\* process, the exporter as UTC)
InstantOf(s) ==
    With(TimestampOf(s).dt, LAMBDA d :
    With(IF prog = "Query-JSON.py" THEN AsUtc(d, SystemZone(envTZ))
         ELSE AwareAsUtc(NormalizeAware(d)), LAMBDA u :
        <<u.wall, u.us>>))

InstantOfDt(dt) == With(AwareAsUtc(dt), LAMBDA u : <<u.wall, u.us>>)

Before(a, b) == a[1] < b[1] \/ (a[1] = b[1] /\ a[2] < b[2])

\* a record without start or without end: the key is not there
Missing(e) == ~Has(e, "start") \/ ~Has(e, "end")

\* a record of which start or end is not there or is the empty string
EmptyStamp(e) == GetOrEmpty(e, "start") = "" \/ GetOrEmpty(e, "end") = ""

\* s with every digit written as 9
RECURSIVE IsoShape(_)
IsoShape(s) ==
    IF Len(s) = 0 THEN ""
    ELSE IsoShape(SubSeq(s, 1, Len(s) - 1))
             \o (IF CharAt(s, Len(s)) \in Digits THEN "9" ELSE CharAt(s, Len(s)))

\* d is a calendar date of ISO 8601, YYYY-MM-DD (extended) or YYYYMMDD
\* (basic), of a day the calendar has
IsoDate(d, extended) ==
    /\ IsoShape(d) = (IF extended THEN "9999-99-99" ELSE "99999999")
    /\ With(IF extended THEN SubSeq(d, 1, 4) \o SubSeq(d, 6, 7) \o SubSeq(d, 9, 10) ELSE d,
            LAMBDA n :
                /\ NumVal(SubSeq(n, 5, 6)) \in 1..12
                /\ NumVal(SubSeq(n, 7, 8)) >= 1
                /\ NumVal(SubSeq(n, 7, 8))
                       <= DaysInMonth(NumVal(SubSeq(n, 1, 4)), NumVal(SubSeq(n, 5, 6))))

\* c is a time of day of ISO 8601 without its fraction: hh:mm:ss or hh:mm
\* (extended), hhmmss or hhmm (basic), or hh
IsoClock(c, extended) ==
    /\ IsoShape(c) \in (IF extended THEN {"99:99:99", "99:99", "99"}
                        ELSE {"999999", "9999", "99"})
    /\ NumVal(SubSeq(c, 1, 2)) <= 23
    /\ Len(c) > 2 => NumVal(IF extended THEN SubSeq(c, 4, 5) ELSE SubSeq(c, 3, 4)) <= 59
    /\ Len(c) > 5 => NumVal(IF extended THEN SubSeq(c, 7, 8) ELSE SubSeq(c, 5, 6)) <= 59

\* t is a time of day of ISO 8601: a clock reading and, after "." or ",", a
\* decimal fraction of its last part
IsoTime(t, extended) ==
    With(SetMin({k \in 1..(Len(t) + 1) : k = Len(t) + 1 \/ CharAt(t, k) \in {".", ","}}),
         LAMBDA f :
             /\ IsoClock(SubSeq(t, 1, f - 1), extended)
             /\ f <= Len(t) => (f < Len(t) /\ \A k \in (f + 1)..Len(t) : CharAt(t, k) \in Digits))

\* z is a zone designator of ISO 8601: none (local time), Z, or a difference
\* from UTC, +hh:mm (extended), +hhmm (basic) or +hh, with either sign
IsoZone(z, extended) ==
    \/ z \in {"", "Z"}
    \/ /\ CharAt(z, 1) \in {"+", "-"}
       /\ IsoShape(SubSeq(z, 2, Len(z))) \in (IF extended THEN {"99:99", "99"} ELSE {"9999", "99"})
       /\ NumVal(SubSeq(z, 2, 3)) <= 23
       /\ NumVal(SubSeq(z, Len(z) - 1, Len(z))) <= 59

\* s is a date and time of ISO 8601: a calendar date, "T", a time of day and
\* a zone designator, all in the extended or all in the basic format.  This
\* is the standard's grammar, not the reading of either tool's parser
IsIso8601(s) ==
    With(IndexFrom(s, "T", 1), LAMBDA t :
        /\ t > 0
        /\ With(SubSeq(s, t + 1, Len(s)), LAMBDA rest :
           With(SetMin({k \in 1..(Len(rest) + 1) :
                           k = Len(rest) + 1 \/ CharAt(rest, k) \in {"Z", "+", "-"}}),
                LAMBDA z :
                    \E extended \in BOOLEAN :
                        /\ IsoDate(SubSeq(s, 1, t - 1), extended)
                        /\ IsoTime(SubSeq(rest, 1, z - 1), extended)
                        /\ IsoZone(SubSeq(rest, z, Len(rest)), extended))))

\* a record with start and end of which one is no ISO-8601 date-time
Malformed(e) == ~Missing(e) /\ (~IsIso8601(e.start) \/ ~IsIso8601(e.end))

AgendaDone == prog = "Query-JSON.py" /\ pc = "exited" /\ exit_code = 0

\* the records the agenda has to list: start < windowEnd and end > windowStart
Listable ==
    {i \in 1..Len(Events) :
        /\ ~Missing(Events[i])
        /\ Before(InstantOf(Events[i].start), InstantOfDt(day_end_utc))
        /\ Before(InstantOfDt(day_start_utc), InstantOf(Events[i].end))}

\* the place of record i in the listing: by start instant, then by input order
PlaceOf(i) ==
    With(InstantOf(Events[i].start), LAMBDA mine :
        1 + Cardinality({j \in Listable :
                With(InstantOf(Events[j].start), LAMBDA other :
                    Before(other, mine) \/ (other = mine /\ j < i))}))

\* the reading of the agenda's clock at a timestamp
LocalOf(s) == AsZone(AsUtc(TimestampOf(s).dt, SystemZone(envTZ)), LOCAL_TZ)

\* the line the agenda prints for a record
LineOf(e) ==
    LET t == IF Has(e, "title") /\ e.title # "" THEN e.title ELSE "(No Title)"
        r == IF Has(e, "allDay") /\ e.allDay THEN "All Day"
             ELSE FormatClock12(LocalOf(e.start)) \o " - " \o FormatClock12(LocalOf(e.end))
    IN  LeftAlign(r, 18) \o " " \o t

ZeroLength(e) ==
    /\ ~Missing(e)
    /\ ValidTimestamp(e.start) /\ ValidTimestamp(e.end)
    /\ InstantOf(e.start) = InstantOf(e.end)

\* record i is among the matches
Listed(i) ==
    \E k \in 1..Len(matches) :
        /\ matches[k].title = Events[i].title
        /\ InstantOfDt(matches[k].start) = InstantOf(Events[i].start)
        /\ InstantOfDt(matches[k].end) = InstantOf(Events[i].end)

\* C3 as stated: an event whose start equals its end is never listed by the
\* agenda tool, whatever the day window.
C3_ZeroLengthNeverListed ==
    AgendaDone => \A i \in 1..Len(Events) : ZeroLength(Events[i]) => ~Listed(i)

\* C3 amended: an event whose start equals its end is listed by the agenda
\* tool exactly when its instant lies strictly inside the day window; at the
\* window's start, at its end or outside it the event is not listed.
C3_ZeroLengthListedIffInside ==
    AgendaDone =>
        \A i \in 1..Len(Events) :
            ZeroLength(Events[i]) =>
                (Listed(i) <=>
                    /\ Before(InstantOfDt(day_start_utc), InstantOf(Events[i].start))
                    /\ Before(InstantOf(Events[i].start), InstantOfDt(day_end_utc)))

C3_Witness ==
    /\ AgendaDone
    /\ Len(argv) = 2 /\ argv[2] = "2026-02-19"
    /\ \E i, j \in 1..Len(Events) :
          /\ Events[i].title = "Reminder" /\ Listed(i)
          /\ Events[j].title = "Midnight" /\ ~Listed(j)

\* C8 as stated: after a run of the agenda tool the lines printed below the
\* header are one line per record that has start and end and overlaps the day
\* window (start < windowEnd and end > windowStart), no other line, in
\* ascending order of start instant with equal starts in input order;
\* "No events." is printed exactly when there is no such record.
C8_AgendaListing ==
    AgendaDone =>
        LET body == SubSeq(stdout, 3, Len(stdout))
        IN  With(Listable, LAMBDA due :
                /\ Len(stdout) >= 3
                /\ due = {} <=> body = <<"No events.">>
                /\ due # {} =>
                      /\ Len(body) = Cardinality(due)
                      /\ \A i \in due : body[PlaceOf(i)] = LineOf(Events[i]))

(***************************************************************************)
(* Reading the written document back                                       *)
(***************************************************************************)
ExportDone == prog = "json_to_ics.py" /\ pc = "exited" /\ exit_code = 0

\* the lines of a document: what stands between its CRLFs
PhysicalLines(content) == SplitOn(content, CRLF)

\* folded lines joined again: a line that starts with a space continues the
\* line before it
RECURSIVE UnfoldLines(_)
UnfoldLines(ls) ==
    IF Len(ls) <= 1 THEN ls
    ELSE LET front == UnfoldLines(SubSeq(ls, 1, Len(ls) - 1))
             last  == ls[Len(ls)]
         IN  IF StartsWith(last, " ")
             THEN SubSeq(front, 1, Len(front) - 1)
                      \o <<front[Len(front)] \o StrFrom(last, 1)>>
             ELSE Append(front, last)

\* the content lines of the document, without the empty piece after the last CRLF
DocLines(content) ==
    LET phys == PhysicalLines(content)
    IN  UnfoldLines(SubSeq(phys, 1, Len(phys) - 1))

\* the lines between the header and the trailer cut into BEGIN:VEVENT ...
\* END:VEVENT blocks: [ok, blocks]; ok is FALSE when a line stands outside a
\* block, a block is not closed or a block holds another BEGIN:VEVENT
RECURSIVE BlocksOf(_)
BlocksOf(ls) ==
    IF Len(ls) = 0 THEN [ok |-> TRUE, blocks |-> <<>>]
    ELSE LET ends == {k \in 1..Len(ls) : ls[k] = "END:VEVENT"}
             e    == IF ends = {} THEN 0 ELSE CHOOSE k \in ends : \A h \in ends : k <= h
         IN  IF ls[1] # "BEGIN:VEVENT" \/ e = 0
                  \/ (\E k \in 2..e : ls[k] = "BEGIN:VEVENT")
             THEN [ok |-> FALSE, blocks |-> <<>>]
             ELSE LET rest == BlocksOf(SubSeq(ls, e + 1, Len(ls)))
                  IN  [ok |-> rest.ok, blocks |-> <<SubSeq(ls, 1, e)>> \o rest.blocks]

\* the blocks of the written file
FileBlocks ==
    LET ls == DocLines(file.content)
    IN  BlocksOf(SubSeq(ls, Len(CalendarHeader) + 1, Len(ls) - 1))

\* the input records that have a start and an end to export, both there and
\* not empty, in input order
Eligible == SelectSeq(Events, LAMBDA e : ~EmptyStamp(e))

\* the lines of a block that start with one of the prefixes
LinesWith(block, prefixes) ==
    SelectSeq(block, LAMBDA l : \E p \in prefixes : StartsWith(l, p))

\* the date of a "...:YYYYMMDD" line
DateOfLine(l) ==
    LET d == SubSeq(l, Len(l) - 7, Len(l))
    IN  DaysFromCivil(NumVal(SubSeq(d, 1, 4)), NumVal(SubSeq(d, 5, 6)), NumVal(SubSeq(d, 7, 8)))

\* the local date of a timestamp in the export zone; no offset means UTC
LocalDateOf(s) ==
    With(AwareAsUtc(NormalizeAware(TimestampOf(s).dt)).wall, LAMBDA u :
        (u + UtcOffset(ExportZone(envTZ), u)) \div 86400)

IsAllDay(e) == Has(e, "allDay") /\ e.allDay

\* block k is the all-day block of record e: DTEND after DTSTART, forced to the
\* day after DTSTART when the source end date is not after the start date
AllDayBlockOk(block, e) ==
    LET starts == LinesWith(block, {"DTSTART"})
        ends   == LinesWith(block, {"DTEND"})
    IN  With(LocalDateOf(e.start), LAMBDA sd :
        With(LocalDateOf(e.end), LAMBDA ed :
            /\ Len(starts) = 1 /\ Len(ends) = 1
            /\ starts[1] = "DTSTART;VALUE=DATE:" \o FormatDateBasic(sd)
            /\ DateOfLine(ends[1]) > DateOfLine(starts[1])
            /\ ed <= sd => DateOfLine(ends[1]) = DateOfLine(starts[1]) + 1
            /\ ed > sd => ends[1] = "DTEND;VALUE=DATE:" \o FormatDateBasic(ed)))

AllDayBlocksOk ==
    LET bs == FileBlocks.blocks
    IN  /\ Len(bs) = Len(Eligible)
        /\ \A k \in 1..Len(Eligible) :
              IsAllDay(Eligible[k]) => AllDayBlockOk(bs[k], Eligible[k])

\* the all-day record of the scenario: start = end = 2026-02-19T00:00:00Z
IsScenario(e) ==
    /\ IsAllDay(e)
    /\ e.start = "2026-02-19T00:00:00Z"
    /\ e.end = "2026-02-19T00:00:00Z"

ScenarioDates(start, end) ==
    \A k \in 1..Len(Eligible) :
        IsScenario(Eligible[k]) =>
            LET b == FileBlocks.blocks[k]
            IN  /\ LinesWith(b, {"DTSTART"}) = <<"DTSTART;VALUE=DATE:" \o start>>
                /\ LinesWith(b, {"DTEND"}) = <<"DTEND;VALUE=DATE:" \o end>>

\* C4 as stated: every exported all-day event has DTEND after DTSTART (the day
\* after DTSTART when the source end date is not after the start date, the
\* source end date otherwise), and start = end = 2026-02-19T00:00:00Z gives
\* DTSTART 20260219 and DTEND 20260220.
C4_AllDayEndScenarioAnyZone ==
    ExportDone => AllDayBlocksOk /\ ScenarioDates("20260219", "20260220")

\* C4 amended: every exported all-day event has DTEND after DTSTART (the day
\* after DTSTART when the source end date is not after the start date, the
\* source end date otherwise), the dates being local dates of the export zone;
\* start = end = 2026-02-19T00:00:00Z gives DTSTART 20260219 and DTEND 20260220
\* when the export zone is UTC, and DTSTART 20260218 and DTEND 20260219 in the
\* default zone America/New_York.
C4_AllDayEndExclusive ==
    ExportDone =>
        /\ AllDayBlocksOk
        /\ ExportZone(envTZ) = "UTC" => ScenarioDates("20260219", "20260220")
        /\ ExportZone(envTZ) = "America/New_York" => ScenarioDates("20260218", "20260219")

C4_Witness ==
    /\ ExportDone
    /\ ExportZone(envTZ) = "UTC"
    /\ Len(Eligible) = 2
    /\ IsScenario(Eligible[1])
    /\ Eligible[2].title = "Trip"
    /\ LinesWith(FileBlocks.blocks[1], {"DTEND"}) = <<"DTEND;VALUE=DATE:20260220">>
    /\ LinesWith(FileBlocks.blocks[2], {"DTEND"}) = <<"DTEND;VALUE=DATE:20260221">>

\* the document without its DTSTAMP lines
WithoutStamps(content) ==
    SelectSeq(PhysicalLines(content), LAMBDA l : ~StartsWith(l, "DTSTAMP:"))

\* C5: a second export of the same input writes the same VEVENT blocks as the
\* first once the DTSTAMP lines are left out; the fallback UID of a record
\* without id is the same in every run.
C5_SameBlocksInEveryRun ==
    (ExportDone /\ rerun) => WithoutStamps(file.content) = WithoutStamps(prevFile.content)

\* C6: a step of either tool's loop at a record without start or end moves
\* to the next record and changes nothing else: no error, no match, no output
\* line, so the records before and after it are processed as without it.
\* (The exporter does the same at a start or end that is the empty string.)
C6_MissingRecordSkipped ==
    [][ ( /\ pc \in {"agenda_loop", "export_loop"}
          /\ idx <= Len(Events)
          /\ \/ Missing(Events[idx])
             \/ pc = "export_loop" /\ EmptyStamp(Events[idx]) )
        => ( /\ idx' = idx + 1
             /\ pc' = pc
             /\ UNCHANGED <<matches, lines, stdout, stderr, exit_code, file>> ) ]_vars

C6_Witness ==
    /\ ExportDone
    /\ Len(Events) = 3
    /\ Events[1].title = "Standup" /\ Events[2].title = "No start" /\ Events[3].title = "Trip"
    /\ Len(FileBlocks.blocks) = 2

\* the arguments let the run reach the events
ArgsOk ==
    IF prog = "Query-JSON.py"
    THEN Len(argv) >= 1
             /\ (Len(argv) >= 2 =>
                    \/ Lower(argv[2]) \in {"today", "tomorrow"}
                    \/ date_fromisoformat(argv[2]).ok)
    ELSE Len(argv) = 2

\* the positions of the malformed records
MalformedAt == {i \in 1..Len(Events) : Malformed(Events[i])}

\* C7 as stated: when a record with start and end carries a timestamp that
\* is no ISO-8601 date-time, the run goes no further than that record, ends
\* with a failure and has written nothing: no header, no event line, no output
\* file, no confirmation.  When no record is malformed, the run passes the
\* whole sequence and ends with status 0 and its complete output.
C7_AllOrNothing ==
    ArgsOk =>
        With(MalformedAt, LAMBDA mal :
        LET first == CHOOSE i \in mal : \A j \in mal : i <= j
        IN  /\ mal # {} =>
                /\ stdout = <<>>
                /\ ~file.exists
                /\ idx <= first
                /\ pc = "exited" => exit_code = 1 /\ idx = first
            /\ (mal = {} /\ pc = "exited") =>
                /\ exit_code = 0
                /\ idx = Len(Events) + 1
                /\ prog = "Query-JSON.py" =>
                      Len(stdout) >= 3 /\ stdout[1] = FormatDateLong(target_date)
                /\ prog = "json_to_ics.py" =>
                      /\ file.exists
                      /\ StartsWith(file.content, "BEGIN:VCALENDAR" \o CRLF)
                      /\ EndsWith(file.content, CRLF \o "END:VCALENDAR" \o CRLF)
                      /\ Len(stdout) = 1)

\* the number of lines of a block that start with one of the prefixes
CountWith(block, prefixes) == Len(LinesWith(block, prefixes))

\* C9: the written document is the header block, then one BEGIN:VEVENT ...
\* END:VEVENT block per input record that has start and end, in input order,
\* then END:VCALENDAR and a final CRLF; no block holds or overlaps another, and
\* each holds exactly one UID, DTSTAMP, DTSTART, DTEND and SUMMARY line.
C9_DocumentStructure ==
    ExportDone =>
        LET ls == DocLines(file.content)
            bs == FileBlocks
        IN  /\ EndsWith(file.content, CRLF)
            /\ Len(ls) >= Len(CalendarHeader) + 1
            /\ SubSeq(ls, 1, Len(CalendarHeader)) = CalendarHeader
            /\ ls[Len(ls)] = "END:VCALENDAR"
            /\ bs.ok
            /\ Len(bs.blocks) = Len(Eligible)
            /\ \A k \in 1..Len(bs.blocks) :
                  LET b == bs.blocks[k]
                  IN  /\ b[1] = "BEGIN:VEVENT" /\ b[Len(b)] = "END:VEVENT"
                      /\ CountWith(b, {"BEGIN:VEVENT"}) = 1
                      /\ CountWith(b, {"END:VEVENT"}) = 1
                      /\ CountWith(b, {"UID:"}) = 1
                      /\ CountWith(b, {"DTSTAMP:"}) = 1
                      /\ CountWith(b, {"DTSTART:", "DTSTART;"}) = 1
                      /\ CountWith(b, {"DTEND:", "DTEND;"}) = 1
                      /\ CountWith(b, {"SUMMARY:"}) = 1
                      /\ LinesWith(b, {"SUMMARY:"})
                            = <<"SUMMARY:" \o EscapeEach(
                                   IF Strip(GetOrEmpty(Eligible[k], "title")) = ""
                                   THEN "(No Title)"
                                   ELSE Strip(Eligible[k].title))>>

C9_Witness ==
    /\ ExportDone
    /\ Len(Events) = 3
    /\ Events[1].title = "Trip" /\ Events[2].title = "Empty start"
    /\ Events[3].title = "Standup"
    /\ FileBlocks.ok
    /\ Len(FileBlocks.blocks) = 2
    /\ Len(PhysicalLines(file.content)) > Len(DocLines(file.content)) + 1

\* C10: the event count of the confirmation line is the number of VEVENT
\* blocks written to the document.
C10_CountIsBlocksWritten ==
    ExportDone =>
        stdout = <<"OK: wrote ICS to " \o argv[2] \o " (events: "
                      \o ToString(Len(FileBlocks.blocks)) \o ")">>

====
